---- MODULE Spec2Model ----
(***************************************************************************)
(* Model of lcg-tools (src/src/lib.rs): the modular arithmetic primitives  *)
(* modulo and modinv, the LCG engine (rand, prev) and the parameter        *)
(* recovery crack_lcg.                                                     *)
(*                                                                         *)
(* BigInt values are TLA+ integers.  isize values are integers of W bits,  *)
(* two's complement; an isize operation whose exact result leaves the      *)
(* range panics in a build with overflow checks and wraps in one without.  *)
(***************************************************************************)
EXTENDS Integers, Sequences, FiniteSets, TLC

VARIABLES lcg, op, ret, trail, expected, state0,
          arg_a, arg_m, inv,
          values, outcome, steps

vars == <<lcg, op, ret, trail, expected, state0,
          arg_a, arg_m, inv, values, outcome, steps>>

engineVars == <<lcg, op, ret, trail, expected, state0>>
modinvVars == <<arg_a, arg_m, inv>>
crackVars == <<values, outcome, steps>>

-----------------------------------------------------------------------------
(* Bounds *)

\* largest modulus of a constructed LCG
MaxM == 5
\* how far the multiplier of an engine ranges above the largest modulus
MaxOver == 5
\* largest depth of the advance trail (k of the round trip)
MaxK == 3
\* largest number of observed outputs handed to crack_lcg
MaxN == 5
\* width of isize in bits
W == 6

MinInt == -(2 ^ (W - 1))
MaxInt == (2 ^ (W - 1)) - 1
ISize == MinInt .. MaxInt

-----------------------------------------------------------------------------
(* Option<T>, and the abnormal end of a call (a Rust panic) *)

Some(x) == [kind |-> "some", val |-> x]
None == [kind |-> "none", val |-> 0]
Panic == [kind |-> "panic", val |-> 0]
Unset == [kind |-> "unset", val |-> 0]

-----------------------------------------------------------------------------
(* BigInt arithmetic: / and % of num-bigint truncate toward zero *)

Abs(x) == IF x < 0 THEN -x ELSE x

TDiv(a, b) ==
    LET q == Abs(a) \div Abs(b)
    IN IF (a < 0) # (b < 0) THEN -q ELSE q

TRem(a, b) == a - b * TDiv(a, b)

\* a faulty variant of modulo: the bare remainder, which keeps the sign of a
modulo_rem(a, m) == TRem(a, m)

\* fn modulo: ((a % m) + m) % m; the caller guarantees m # 0 (m = 0 panics)
modulo(a, m) == TRem(TRem(a, m) + m, m)

\* the loop of Integer::extended_gcd: r, s, t are the pairs (.0, .1)
RECURSIVE egcd_loop(_, _, _, _, _, _)
egcd_loop(r0, r1, s0, s1, t0, t1) ==
    IF r0 = 0
    THEN IF r1 >= 0
         THEN [gcd |-> r1, x |-> s1, y |-> t1]
         ELSE [gcd |-> 0 - r1, x |-> 0 - s1, y |-> 0 - t1]
    ELSE LET q == TDiv(r1, r0)
         IN egcd_loop(r1 - q * r0, r0, s1 - q * s0, s0, t1 - q * t0, t0)

\* self.extended_gcd(other): gcd = x * self + y * other
extended_gcd(self, other) == egcd_loop(other, self, 0, 1, 1, 0)

max(a, b) == IF b >= a THEN b ELSE a
min(a, b) == IF b < a THEN b ELSE a

\* a faulty variant of modinv: the gcd test is dropped
modinv_nocheck(a, m) ==
    LET egcd == extended_gcd(max(a, m), min(a, m))
    IN IF m = 0 THEN Panic ELSE Some(modulo(egcd.y, m))

\* fn modinv: None unless gcd = 1, else egcd.y normalized; modulo panics on m = 0
modinv(a, m) ==
    LET egcd == extended_gcd(max(a, m), min(a, m))
    IN IF egcd.gcd # 1 THEN None
       ELSE IF m = 0 THEN Panic
       ELSE Some(modulo(egcd.y, m))

-----------------------------------------------------------------------------
(* The LCG engine *)

LCG(state, a, c, m) == [state |-> state, a |-> a, c |-> c, m |-> m]

\* LCG::rand: the engine after the call and the value returned
rand(self) ==
    LET s == modulo(self.state * self.a + self.c, self.m)
    IN [lcg |-> [self EXCEPT !.state = s], ret |-> Some(s)]

\* a faulty variant of prev: the state is written before the inverse is tested
prev_eager(self) ==
    LET i == modinv(self.a, self.m)
        s == modulo(i.val * (self.state - self.c), self.m)
    IN IF i.kind = "some"
       THEN [lcg |-> [self EXCEPT !.state = s], ret |-> Some(s)]
       ELSE [lcg |-> [self EXCEPT !.state = s], ret |-> i]

\* LCG::prev: the ? returns None before self.state is assigned
prev(self) ==
    LET i == modinv(self.a, self.m)
    IN IF i.kind = "some"
       THEN LET s == modulo(i.val * (self.state - self.c), self.m)
            IN [lcg |-> [self EXCEPT !.state = s], ret |-> Some(s)]
       ELSE [lcg |-> self, ret |-> i]

NoLCG == LCG(0, 0, 0, 1)

\* what crack_lcg returned (Option<LCG>, or a panic), and its intermediate values
Returned(kind, l) == [kind |-> kind, lcg |-> l]
NoSteps == [diffs |-> <<>>, zeroes |-> <<>>, modulus |-> 0, overflow |-> FALSE]

\* the integers an engine is constructed from: negative, zero, below, at and above m
EngineInts == (-2) .. (MaxM + MaxOver)
SmallInts == (-2) .. (MaxM + 1)

InitEngine ==
    /\ \E m \in 1 .. MaxM, a \in EngineInts, c \in SmallInts, s \in SmallInts :
          /\ lcg = LCG(s, a, c, m)
          /\ state0 = s
    /\ op = "new"
    /\ ret = Unset
    /\ trail = <<>>
    /\ expected = Unset
    /\ arg_a = 0 /\ arg_m = 1 /\ inv = Unset
    /\ values = <<>> /\ outcome = Returned("unset", NoLCG) /\ steps = NoSteps

\* a call of rand (Iterator::next); the state left behind goes on the trail
Rand ==
    /\ Len(trail) < MaxK
    /\ lcg' = rand(lcg).lcg
    /\ ret' = rand(lcg).ret
    /\ op' = "rand"
    /\ trail' = Append(trail, lcg.state)
    /\ expected' = Unset
    /\ UNCHANGED <<state0, modinvVars, crackVars>>

\* a call of prev; a call that returns a value undoes the last rand on the trail
Prev ==
    /\ lcg' = prev(lcg).lcg
    /\ ret' = prev(lcg).ret
    /\ op' = "prev"
    /\ IF Len(trail) > 0
       THEN /\ expected' = Some(trail[Len(trail)])
            /\ trail' = IF prev(lcg).ret.kind = "some"
                        THEN SubSeq(trail, 1, Len(trail) - 1)
                        ELSE trail
       ELSE /\ expected' = Unset
            /\ trail' = trail
    /\ UNCHANGED <<state0, modinvVars, crackVars>>

NextEngine == Rand \/ Prev

SpecEngine == InitEngine /\ [][NextEngine]_vars

-----------------------------------------------------------------------------
(* The pure function modinv applied to drawn arguments *)

ModinvInts == (0 - (MaxM + MaxOver)) .. (MaxM + MaxOver)

InitModinv ==
    /\ arg_a \in ModinvInts
    /\ arg_m \in 1 .. MaxM
    /\ inv = Unset
    /\ lcg = NoLCG /\ op = "new" /\ ret = Unset /\ trail = <<>>
    /\ expected = Unset /\ state0 = 0
    /\ values = <<>> /\ outcome = Returned("unset", NoLCG) /\ steps = NoSteps

ApplyModinv ==
    /\ inv.kind = "unset"
    /\ inv' = modinv(arg_a, arg_m)
    /\ UNCHANGED <<arg_a, arg_m, engineVars, crackVars>>

NextModinv == ApplyModinv

SpecModinv == InitModinv /\ [][NextModinv]_vars

-----------------------------------------------------------------------------
(* isize arithmetic of crack_lcg *)

\* the value a W-bit two's complement operation leaves when it wraps
Wrap(x) == ((x - MinInt) % (2 ^ W)) + MinInt

RECURSIVE euclid(_, _)
euclid(x, y) == IF y = 0 THEN x ELSE euclid(y, x % y)

\* Integer::gcd on isize: the gcd of the magnitudes; the final abs() overflows
\* when that is 2^(W-1), which only isize::MIN with 0 or with itself gives
gcd_isize(m, n) == Wrap(euclid(Abs(m), Abs(n)))
gcd_overflows(m, n) == euclid(Abs(m), Abs(n)) \notin ISize

\* izip!(values, values.skip(1)).map(|(a, b)| b - a)
diffs(vs) == [i \in 1 .. (Len(vs) - 1) |-> Wrap(vs[i + 1] - vs[i])]

diffs_overflow(vs) == \E i \in 1 .. (Len(vs) - 1) : (vs[i + 1] - vs[i]) \notin ISize

\* a faulty variant of zeroes: the middle difference is not squared
zeroes_nosquare(d) ==
    [i \in 1 .. (Len(d) - 2) |-> Wrap(Wrap(d[i + 2] * d[i]) - d[i + 1])]

\* izip!(diffs, diffs.skip(1), diffs.skip(2)).map(|(a, b, c)| c * a - b * b)
zeroes(d) ==
    [i \in 1 .. (Len(d) - 2) |->
        Wrap(Wrap(d[i + 2] * d[i]) - Wrap(d[i + 1] * d[i + 1]))]

zeroes_overflow(d) ==
    \E i \in 1 .. (Len(d) - 2) :
        \/ (d[i + 2] * d[i]) \notin ISize
        \/ (d[i + 1] * d[i + 1]) \notin ISize
        \/ (Wrap(d[i + 2] * d[i]) - Wrap(d[i + 1] * d[i + 1])) \notin ISize

\* zeroes.iter().fold(0isize, |sum, val| sum.gcd(val)) from element i on
RECURSIVE fold_gcd(_, _, _)
fold_gcd(z, i, sum) ==
    IF i > Len(z) THEN sum ELSE fold_gcd(z, i + 1, gcd_isize(sum, z[i]))

RECURSIVE fold_overflow(_, _, _)
fold_overflow(z, i, sum) ==
    IF i > Len(z) THEN FALSE
    ELSE gcd_overflows(sum, z[i]) \/ fold_overflow(z, i + 1, gcd_isize(sum, z[i]))

modulus(z) == fold_gcd(z, 1, 0)

\* (values[2] - values[1]) * modinv(values[1] - values[0], modulus), reduced;
\* the first difference is taken in isize, the second in BigInt
multiplier(vs, i, md) == modulo(Wrap(vs[3] - vs[2]) * i, md)

\* a faulty variant of increment: the subtraction binds before the product
increment_prec(vs, mult, md) == modulo((vs[2] - vs[1]) * mult, md)

\* modulo(values[1] - values[0] * multiplier, modulus), in BigInt
increment(vs, mult, md) == modulo(vs[2] - vs[1] * mult, md)

\* fn crack_lcg in a build that wraps: what it returns, the intermediate
\* values, and whether some isize operation overflowed on the way
crack_lcg(vs) ==
    IF Len(vs) < 3
    THEN [result |-> Returned("none", NoLCG), steps |-> NoSteps]
    ELSE LET d == diffs(vs)
             z == zeroes(d)
             md == modulus(z)
             i == modinv(vs[2] - vs[1], md)
             st == [diffs |-> d, zeroes |-> z, modulus |-> md,
                    overflow |-> \/ diffs_overflow(vs)
                                 \/ zeroes_overflow(d)
                                 \/ fold_overflow(z, 1, 0)]
         IN IF i.kind # "some"
            THEN [result |-> Returned(i.kind, NoLCG), steps |-> st]
            ELSE LET mult == multiplier(vs, i.val, md)
                     inc == increment(vs, mult, md)
                 IN [result |-> Returned("some", LCG(vs[Len(vs)], mult, inc, md)),
                     steps |-> st]

\* a call of crack_lcg; an overflow panics or wraps, as the build has it
Crack ==
    /\ outcome.kind = "unset"
    /\ LET r == crack_lcg(values)
       IN /\ outcome' \in (IF r.steps.overflow
                           THEN {Returned("panic", NoLCG), r.result}
                           ELSE {r.result})
          /\ steps' = r.steps
    /\ UNCHANGED <<values, engineVars, modinvVars>>

\* the input values drawn: the ends of the isize range and small integers
InputVals == {MinInt, MaxInt} \cup ((-1) .. 3)

InitCrack ==
    /\ values \in UNION {[1 .. n -> InputVals] : n \in 0 .. MaxN}
    /\ outcome = Returned("unset", NoLCG)
    /\ steps = NoSteps
    /\ lcg = NoLCG /\ op = "new" /\ ret = Unset /\ trail = <<>>
    /\ expected = Unset /\ state0 = 0
    /\ arg_a = 0 /\ arg_m = 1 /\ inv = Unset

NextCrack == Crack

SpecCrack == InitCrack /\ [][NextCrack]_vars

-----------------------------------------------------------------------------
(* crack_lcg applied to the outputs of a generator, as it_cracks_lcg_correctly *)

InitGen ==
    /\ \E m \in 1 .. MaxM, a \in SmallInts, c \in SmallInts, s \in SmallInts :
          /\ lcg = LCG(s, a, c, m)
          /\ state0 = s
    /\ values = <<>>
    /\ outcome = Returned("unset", NoLCG)
    /\ steps = NoSteps
    /\ op = "new" /\ ret = Unset /\ trail = <<>> /\ expected = Unset
    /\ arg_a = 0 /\ arg_m = 1 /\ inv = Unset

\* one item of (&mut rand).take(n): Iterator::next calls rand, and the output
\* is converted with to_isize().unwrap(), which needs it in the isize range
Take ==
    /\ outcome.kind = "unset"
    /\ Len(values) < MaxN
    /\ rand(lcg).ret.val \in ISize
    /\ lcg' = rand(lcg).lcg
    /\ ret' = rand(lcg).ret
    /\ op' = "rand"
    /\ values' = Append(values, rand(lcg).ret.val)
    /\ UNCHANGED <<trail, expected, state0, modinvVars, outcome, steps>>

NextGen == Take \/ Crack

SpecGen == InitGen /\ [][NextGen]_vars

-----------------------------------------------------------------------------
(* Number theory the claims are stated in *)

Divides(d, n) == Abs(n) % d = 0

\* the greatest common divisor by its definition; GCD(0, 0) = 0
GCD(x, y) ==
    IF x = 0 /\ y = 0 THEN 0
    ELSE LET cd == {d \in 1 .. max(Abs(x), Abs(y)) : Divides(d, x) /\ Divides(d, y)}
         IN CHOOSE d \in cd : \A e \in cd : e <= d

\* the differences, the products and their gcd in exact arithmetic
ExactDiffs(vs) == [i \in 1 .. (Len(vs) - 1) |-> vs[i + 1] - vs[i]]
ExactZeroes(vs) ==
    LET d == ExactDiffs(vs)
    IN [i \in 1 .. (Len(d) - 2) |-> d[i + 2] * d[i] - d[i + 1] * d[i + 1]]

RECURSIVE GCDFrom(_, _)
GCDFrom(z, i) == IF i > Len(z) THEN 0 ELSE GCD(z[i], GCDFrom(z, i + 1))

ExactModulus(vs) == GCDFrom(ExactZeroes(vs), 1)

InUnit(x, m) == x \in 0 .. (m - 1)

-----------------------------------------------------------------------------
(* Claims about the engine and modinv *)

\* C2: with 0 <= state < m at construction and gcd(a, m) = 1, for any integers
\* a and c, every prev that undoes a rand returns a value, and that value and
\* the stored state are the state the matching rand started from.
C2_RoundTrip ==
    (/\ state0 \in 0 .. (lcg.m - 1)
     /\ GCD(lcg.a, lcg.m) = 1
     /\ op = "prev"
     /\ expected.kind = "some")
    => (/\ ret.kind = "some"
        /\ ret.val = expected.val
        /\ lcg.state = expected.val)

\* C3: whenever modinv(a, m) returns inv, for any integer a and m > 0,
\* 0 <= inv < m and a * inv is congruent to 1 modulo m.
C3_ModinvContract ==
    inv.kind = "some"
    => (/\ inv.val \in 0 .. (arg_m - 1)
        /\ (arg_a * inv.val) % arg_m = 1 % arg_m)

\* C4: after every rand and every prev that returns a value, 0 <= state < m
\* and the stored state is the value returned.
C4_StateInRange ==
    (op = "rand" \/ (op = "prev" /\ ret.kind = "some"))
    => (/\ lcg.state \in 0 .. (lcg.m - 1)
        /\ ret = Some(lcg.state))

C4_Witness ==
    /\ op = "prev" /\ ret.kind = "some"
    /\ state0 < 0 /\ lcg.a < 0 /\ lcg.c > lcg.m
    /\ Len(trail) > 0

\* C5: prev returns None exactly when gcd(a, m) # 1, at any point of any
\* sequence of calls.
C5_PrevAbsentIff ==
    op = "prev" => ((ret.kind = "none") <=> (GCD(lcg.a, lcg.m) # 1))

C5_Witness ==
    /\ op = "prev" /\ ret.kind = "none"
    /\ lcg.a = 2 /\ lcg.m = 4
    /\ Len(trail) = 2

\* C10: every call leaves a, c and m as they were, and a prev that returns
\* None leaves the state as it was too.
C10_Frame ==
    [][/\ lcg'.a = lcg.a /\ lcg'.c = lcg.c /\ lcg'.m = lcg.m
       /\ (op' = "prev" /\ ret'.kind = "none") => lcg' = lcg]_vars

C10_Witness ==
    /\ op = "prev" /\ ret.kind = "none"
    /\ lcg.state # 0
    /\ Len(trail) > 0

-----------------------------------------------------------------------------
(* Claims about crack_lcg *)

Generated ==
    /\ outcome.kind # "unset"
    /\ Len(values) >= 3
    /\ InUnit(state0, lcg.m) /\ InUnit(lcg.a, lcg.m) /\ InUnit(lcg.c, lcg.m)

\* C1 as stated: for a generator with state, a, c in [0, m) and n >= 3, an LCG
\* returned by crack_lcg on its first n outputs equals the generator after
\* those outputs in all four fields.
C1_RecoversGenerator ==
    (Generated /\ outcome.kind = "some") => outcome.lcg = lcg

\* C1 amended: the LCG returned has the state of the generator after the n
\* outputs, and equals it in all four fields whenever the modulus returned is
\* the generator's modulus.
C1_RecoversGivenModulus ==
    (Generated /\ outcome.kind = "some")
    => (/\ outcome.lcg.state = lcg.state
        /\ (outcome.lcg.m = lcg.m => outcome.lcg = lcg))

C1_Witness ==
    /\ Generated /\ outcome.kind = "some"
    /\ Len(values) = MaxN
    /\ outcome.lcg = lcg
    /\ lcg.a > 1 /\ lcg.c > 0

\* C6: for an input of length >= 3 whose candidate modulus is 0, computed
\* without overflow, crack_lcg ends by returning None.
C6_ZeroModulusAbsent ==
    (/\ outcome.kind # "unset"
     /\ Len(values) >= 3
     /\ ~steps.overflow
     /\ steps.modulus = 0)
    => outcome.kind = "none"

\* C7: every LCG crack_lcg returns, for any input of length >= 3 processed
\* without overflow, has m > 0 and 0 <= state < m.
C7_ReturnedInvariant ==
    (outcome.kind = "some" /\ ~steps.overflow)
    => (outcome.lcg.m > 0 /\ InUnit(outcome.lcg.state, outcome.lcg.m))

\* C8: for every input of isize values, no difference, product or gcd step
\* overflows, and the candidate modulus is the gcd of the exact products.
C8_ExactArithmetic ==
    (outcome.kind # "unset" /\ Len(values) >= 3)
    => (~steps.overflow /\ steps.modulus = ExactModulus(values))

\* C9: for n >= 4 outputs of an LCG with modulus m (any a, c and initial
\* state), every product z[i] computed without overflow is divisible by m, and
\* the candidate modulus is 0 or a positive multiple of m.
C9_ZeroesDivisible ==
    (outcome.kind # "unset" /\ Len(values) >= 4 /\ ~steps.overflow)
    => (/\ \A i \in 1 .. Len(steps.zeroes) : Divides(lcg.m, steps.zeroes[i])
        /\ \/ steps.modulus = 0
           \/ (steps.modulus > 0 /\ Divides(lcg.m, steps.modulus)))

C9_Witness ==
    /\ outcome.kind # "unset" /\ Len(values) >= 4 /\ ~steps.overflow
    /\ steps.modulus > lcg.m
    /\ lcg.m > 1
    /\ \E i \in 1 .. Len(steps.zeroes) : steps.zeroes[i] # 0

====
